---- MODULE Spec2Model ----
(***************************************************************************)
(* create-vtex-io-app as a state machine: the OAuth device-flow            *)
(* authentication (github-auth.js: getGitHubToken and pollForToken) and    *)
(* main (index.js) from the createRepo prompt on.                          *)
(*                                                                         *)
(* Every invocation of getGitHubToken is one "call".  A call is suspended  *)
(* at each await of the source; one action is the code that runs from one  *)
(* await to the next.  The provider (GitHub), the browser opener and the   *)
(* timers are the environment: what they answer is chosen by \E.           *)
(***************************************************************************)
EXTENDS Naturals, Sequences, FiniteSets, TLC

(* ---------------------------------------------------------------- bounds *)

\* The provider answers at most MaxPolls token requests of one call with a
\* retryable error; the next answer is a terminal one.
MaxPolls == 2

(* ------------------------------------------------------------- JS values *)

Undefined == "undefined"

\* JavaScript truthiness of a string-or-undefined value: if (x), x || y.
Truthy(x) == x \notin {Undefined, ""}

Or(x, y) == IF Truthy(x) THEN x ELSE y

(* ------------------------------------------------------------- constants *)

\* currentInterval += 5
SlowDownIncrement == 5

\* delay(currentInterval * 1000)
MsPerSecond == 1000

AuthFailedPrefix == "GitHub authentication failed: "

UnknownAuthError == "An unknown error occurred during authentication."

UnknownError == "An unknown error occurred."

(* ------------------------------------------------------- the environment *)

\* The invocations of getGitHubToken that are modelled.
Calls == {"a", "b"}

\* What a settled promise of the environment carries: the value a resolved
\* axios.post yields in `data`, or the value a rejected promise throws.
\*   kind = "data":  error, error_description, access_token are data's fields
\*   kind = "throw": isError is `err instanceof Error`, message is
\*                   err.message, error_description is
\*                   err.response.data.error_description
Data(e, d, t) ==
    [kind |-> "data", error |-> e, error_description |-> d,
     access_token |-> t, isError |-> FALSE, message |-> Undefined]

Thrown(isErr, m, d) ==
    [kind |-> "throw", error |-> Undefined, error_description |-> d,
     access_token |-> Undefined, isError |-> isErr, message |-> m]

\* The token endpoint's answers.
TokenData ==
    { Data(Undefined, Undefined, "tok_abc"),
      Data(Undefined, Undefined, "tok_xyz"),
      Data(Undefined, Undefined, Undefined),
      Data("authorization_pending", Undefined, Undefined),
      Data("authorization_pending", Undefined, "tok_abc"),
      Data("slow_down", Undefined, Undefined),
      Data("expired_token", "device code expired", Undefined),
      Data("access_denied", Undefined, Undefined) }

\* The ways a request fails: an HTTP error whose body describes it, an HTTP
\* or network error that carries no description, a rejection with a value
\* that is no Error.
Failures ==
    { Thrown(TRUE, "Request failed with status code 401", "bad verification code"),
      Thrown(TRUE, "Network Error", Undefined),
      Thrown(FALSE, Undefined, Undefined) }

TokenOutcomes == TokenData \cup Failures

\* The answers after which the provider expects another poll.
Retryable(r) ==
    r.kind = "data" /\ r.error \in {"authorization_pending", "slow_down"}

\* The sessions the device-code endpoint hands out.
Sessions ==
    { [device_code |-> "dc1", interval |-> 5, expires_in |-> 900],
      [device_code |-> "dc2", interval |-> 1, expires_in |-> 2] }

NoSession == [device_code |-> Undefined, interval |-> 0, expires_in |-> 0]

\* The sum of a sequence of numbers.
RECURSIVE Sum(_)
Sum(s) == IF s = << >> THEN 0 ELSE Head(s) + Sum(Tail(s))

\* open(verificationUri) resolves, or rejects with an Error.
OpenOutcomes == { "opened", "failed" }

OpenError == Thrown(TRUE, "spawn xdg-open ENOENT", Undefined)

(* ----------------------------------------------------------------- state *)

VARIABLES
    pc,               \* where each call is suspended, or how it settled
    session,          \* deviceCode, interval, expiresIn destructured from data
    currentInterval,  \* pollForToken's local
    result,           \* the value a call resolved with / the message it rejected with
    deviceRequests,   \* number of posts to GITHUB_DEVICE_CODE_URL, per call
    deviceOutcome,    \* "none", "ok", "failed": how the device-code post settled
    openCalls,        \* number of open(verificationUri) calls, per call
    openOutcome,      \* "none", "opened", "failed"
    pollCalls,        \* number of pollForToken invocations, per call
    timers,           \* the delay(ms) arguments, in order, per call
    requests,         \* the device_code of each post to GITHUB_OAUTH_URL, per call
    responses         \* how each of those posts settled, per call

(* ------------------------------------------------- main (index.js), data *)

\* The invocation of getGitHubToken that main makes.
MainCall == "a"

REPOSITORY_URL == "https://github.com/cubos-vtex/create-vtex-io-app"

\* What the user answers to the first prompt (after filter and validate).
Answers ==
    { [appName |-> "my-app", appVendor |-> "acme", appTitle |-> "My App",
       appDescription |-> d] : d \in {"", "An app."} }

NoAnswers ==
    [appName |-> Undefined, appVendor |-> Undefined, appTitle |-> Undefined,
     appDescription |-> Undefined]

\* The login users.getAuthenticated answers with.
Logins == { "octocat" }

\* The lists orgs.listForAuthenticatedUser answers with.
OrgLists == { << >>, << "org1" >>, << "org1", "org2" >> }

\* data.html_url of the repository the API created for owner.
HtmlUrl(owner, name) == "https://github.com/" \o owner \o "/" \o name

\* The files of the project directory: the directories below projectPath,
\* the base name and the extension.
File(dirs, base, ext) == [dirs |-> dirs, base |-> base, ext |-> ext]

ProjectFiles ==
    { File(<< >>, "manifest", "json"),
      File(<< "docs" >>, "README", "md"),
      File(<< "node" >>, "index", "ts"),
      File(<< "react" >>, "App", "tsx"),
      File(<< >>, ".all-contributorsrc", ""),
      File(<< "node_modules", "x" >>, "package", "json"),
      File(<< "react" >>, "styles", "css") }

\* What every file of the template holds, as a sequence of pieces of text:
\* each placeholder, a placeholder-like text, plain text.
TemplateContent ==
    << "<APP_VENDOR>", "<APP_NAME>", "<APP_TITLE>", "<APP_DESCRIPTION>",
       "<APP_REPOSITORY_OWNER>", "<APP_REPOSITORY_URL>", "<APP_OTHER>",
       "text" >>

\* files: `${projectPath}/**/*.{json,md,ts,tsx}`, `${projectPath}/.all-contributorsrc`
\* ignore: `${projectPath}/**/node_modules/**`
MatchesGlob(f) ==
    /\ \A i \in 1..Len(f.dirs) : f.dirs[i] # "node_modules"
    /\ \/ f.ext \in {"json", "md", "ts", "tsx"}
       \/ f.dirs = << >> /\ f.base = ".all-contributorsrc" /\ f.ext = ""

\* from: [/<APP_NAME>/g, ...]
From ==
    << "<APP_NAME>", "<APP_VENDOR>", "<APP_TITLE>", "<APP_DESCRIPTION>",
       "<APP_REPOSITORY_OWNER>", "<APP_REPOSITORY_URL>" >>

\* to: [appName, ...]
To(a, owner, url) ==
    << a.appName, a.appVendor, a.appTitle, a.appDescription, owner, url >>

\* content.replace(from, to) with a /g pattern: every occurrence.
ReplaceOne(content, from, to) ==
    [i \in 1..Len(content) |-> IF content[i] = from THEN to ELSE content[i]]

\* replace-in-file with arrays: from[i] is replaced by to[i], in order.
RECURSIVE ReplaceAll(_, _, _)
ReplaceAll(content, from, to) ==
    IF from = << >> THEN content
    ELSE ReplaceAll(ReplaceOne(content, Head(from), Head(to)),
                    Tail(from), Tail(to))

(* ------------------------------------------------ main (index.js), state *)

VARIABLES
    mpc,              \* where main is suspended, "done" or "failed"
    answers,          \* appName, appVendor, appTitle, appDescription
    createRepo,       \* the answer to the createRepo prompt
    createInOrg,      \* `let createInOrg`: the answer, reset when there is no org
    orgs,             \* data of orgs.listForAuthenticatedUser
    org,              \* the organization chosen
    githubUser,
    repositoryOwner,
    repositoryUrl,
    gitOK,            \* hasGitUser()
    files,            \* the content of each file of the project
    log,              \* commands executed, API calls made, final messages
    mainError         \* error.message printed by main().catch

mainVars ==
    << mpc, answers, createRepo, createInOrg, orgs, org, githubUser,
       repositoryOwner, repositoryUrl, gitOK, files, log, mainError >>

authVars ==
    << pc, session, currentInterval, result, deviceRequests, deviceOutcome,
       openCalls, openOutcome, pollCalls, timers, requests, responses >>

vars ==
    << pc, session, currentInterval, result, deviceRequests, deviceOutcome,
       openCalls, openOutcome, pollCalls, timers, requests, responses,
       mpc, answers, createRepo, createInOrg, orgs, org, githubUser,
       repositoryOwner, repositoryUrl, gitOK, files, log, mainError >>

\* Frame as it would be were currentInterval a module-level `let`.
FrameShared(c) == "a"

\* `let currentInterval` is a local of one pollForToken invocation.
Frame(c) == c

(* --------------------------------------------------- pollForToken, pure *)

\* ProviderError without the description: new Error(data.error)
ProviderErrorCodeOnly(data) ==
    Thrown(TRUE, data.error, Undefined)

\* new Error(data.error_description || data.error)
ProviderError(data) ==
    Thrown(TRUE, Or(data.error_description, data.error), Undefined)

\* Classify without the final throw: an unnamed error falls through to the
\* return.
ClassifyNoThrow(data) ==
    IF Truthy(data.error)
    THEN IF data.error = "authorization_pending" THEN "continue"
         ELSE IF data.error = "slow_down" THEN "slow_down"
         ELSE "return"
    ELSE "return"

\* Classify without the slow_down branch: slow_down ends the loop like any
\* other error.
ClassifyNoSlowDown(data) ==
    IF Truthy(data.error)
    THEN IF data.error = "authorization_pending" THEN "continue"
         ELSE "throw"
    ELSE "return"

\* The body of the try block once the post has resolved with `data`.
Classify(data) ==
    IF Truthy(data.error)
    THEN IF data.error = "authorization_pending" THEN "continue"
         ELSE IF data.error = "slow_down" THEN "slow_down"
         ELSE "throw"
    ELSE "return"

\* NextInterval with `=` for `+=`.
NextIntervalAssign(cur, data) ==
    IF data.error = "slow_down" THEN SlowDownIncrement ELSE cur

\* NextInterval backing off on every retry.
NextIntervalEveryRetry(cur, data) == cur + SlowDownIncrement

\* The interval after an answer that continues the loop.
NextInterval(cur, data) ==
    IF Classify(data) = "slow_down" THEN cur + SlowDownIncrement ELSE cur

\* ReturnValue reading a field the answer does not have: data.token
ReturnValueWrongField(data) == Undefined

\* return data.access_token
ReturnValue(data) == data.access_token

\* PollCatch without the look into err.response.
PollCatchNoDescription(err) ==
    IF err.isError THEN err
    ELSE Thrown(TRUE, UnknownAuthError, Undefined)

\* The catch block of pollForToken: what it rethrows for a caught err.
PollCatch(err) ==
    IF Truthy(err.error_description)
    THEN Thrown(TRUE, err.error_description, Undefined)
    ELSE IF err.isError THEN err
    ELSE Thrown(TRUE, UnknownAuthError, Undefined)

\* The catch block of getGitHubToken: the message of the Error it throws.
AuthFailed(err) ==
    AuthFailedPrefix \o (IF err.isError THEN err.message ELSE UnknownError)

(* --------------------------------------------------------------- actions *)

Init ==
    /\ pc = [c \in Calls |-> "idle"]
    /\ session = [c \in Calls |-> NoSession]
    /\ currentInterval = [c \in Calls |-> 0]
    /\ result = [c \in Calls |-> Undefined]
    /\ deviceRequests = [c \in Calls |-> 0]
    /\ deviceOutcome = [c \in Calls |-> "none"]
    /\ openCalls = [c \in Calls |-> 0]
    /\ openOutcome = [c \in Calls |-> "none"]
    /\ pollCalls = [c \in Calls |-> 0]
    /\ timers = [c \in Calls |-> << >>]
    /\ requests = [c \in Calls |-> << >>]
    /\ responses = [c \in Calls |-> << >>]
    /\ mpc = "start"
    /\ answers = NoAnswers
    /\ createRepo = FALSE
    /\ createInOrg = FALSE
    /\ orgs = << >>
    /\ org = Undefined
    /\ githubUser = ""
    /\ repositoryOwner = ""
    /\ repositoryUrl = "<APP_REPOSITORY_URL>"
    /\ gitOK = FALSE
    /\ files = [f \in ProjectFiles |-> << >>]
    /\ log = << >>
    /\ mainError = Undefined

\* getGitHubToken is invoked: it posts to the device-code endpoint and
\* suspends on the answer.
getGitHubToken(c) ==
    /\ pc[c] = "idle"
    /\ pc' = [pc EXCEPT ![c] = "await_device_code"]
    /\ deviceRequests' = [deviceRequests EXCEPT ![c] = @ + 1]
    /\ UNCHANGED << session, currentInterval, result, deviceOutcome, openCalls,
                    openOutcome, pollCalls, timers, requests, responses >>

\* The device-code post resolves: the session is destructured, the
\* instructions are printed, open(verificationUri) is called.
DeviceCodeResolved(c) ==
    /\ pc[c] = "await_device_code"
    /\ \E s \in Sessions :
          /\ session' = [session EXCEPT ![c] = s]
          /\ deviceOutcome' = [deviceOutcome EXCEPT ![c] = "ok"]
          /\ openCalls' = [openCalls EXCEPT ![c] = @ + 1]
          /\ pc' = [pc EXCEPT ![c] = "await_open"]
    /\ UNCHANGED << currentInterval, result, deviceRequests, openOutcome,
                    pollCalls, timers, requests, responses >>

\* DeviceCodeRejected with the rejection swallowed: the flow goes on to
\* open the browser with what it has.
DeviceCodeRejectedSwallowed(c) ==
    /\ pc[c] = "await_device_code"
    /\ deviceOutcome' = [deviceOutcome EXCEPT ![c] = "failed"]
    /\ openCalls' = [openCalls EXCEPT ![c] = @ + 1]
    /\ pc' = [pc EXCEPT ![c] = "await_open"]
    /\ UNCHANGED << session, currentInterval, result, deviceRequests,
                    openOutcome, pollCalls, timers, requests, responses >>

\* The device-code post rejects: the catch of getGitHubToken wraps it.
DeviceCodeRejected(c) ==
    /\ pc[c] = "await_device_code"
    /\ \E err \in Failures :
          /\ deviceOutcome' = [deviceOutcome EXCEPT ![c] = "failed"]
          /\ result' = [result EXCEPT ![c] = AuthFailed(err)]
          /\ pc' = [pc EXCEPT ![c] = "rejected"]
    /\ UNCHANGED << session, currentInterval, deviceRequests, openCalls,
                    openOutcome, pollCalls, timers, requests, responses >>

\* pollForToken as a do-while: the first request goes out before any wait.
pollForTokenRequestFirst(c) ==
    /\ pollCalls' = [pollCalls EXCEPT ![c] = @ + 1]
    /\ currentInterval' =
          [currentInterval EXCEPT ![Frame(c)] = session[c].interval]
    /\ requests' = [requests EXCEPT ![c] = Append(@, session[c].device_code)]
    /\ pc' = [pc EXCEPT ![c] = "await_token"]
    /\ UNCHANGED << result, timers, responses >>

\* pollForToken(deviceCode, interval) up to its first await: the local is
\* initialised and the first delay is started.
pollForToken(c) ==
    /\ pollCalls' = [pollCalls EXCEPT ![c] = @ + 1]
    /\ currentInterval' =
          [currentInterval EXCEPT ![Frame(c)] = session[c].interval]
    /\ timers' = [timers EXCEPT ![c] =
                     Append(@, session[c].interval * MsPerSecond)]
    /\ pc' = [pc EXCEPT ![c] = "await_delay"]
    /\ UNCHANGED << result, requests, responses >>

\* `await open(verificationUri)` settles.  Resolved: pollForToken is called.
\* Rejected: the await throws inside the try of getGitHubToken.
OpenSettled(c) ==
    /\ pc[c] = "await_open"
    /\ \E o \in OpenOutcomes :
          /\ openOutcome' = [openOutcome EXCEPT ![c] = o]
          /\ IF o = "opened"
             THEN pollForToken(c)
             ELSE /\ result' = [result EXCEPT ![c] = AuthFailed(OpenError)]
                  /\ pc' = [pc EXCEPT ![c] = "rejected"]
                  /\ UNCHANGED << currentInterval, pollCalls, timers,
                                  requests, responses >>
    /\ UNCHANGED << session, deviceRequests, deviceOutcome, openCalls >>

\* DelayElapsed posting the code of the session the provider issued last,
\* as a module-level deviceCode would hold it.
DelayElapsedLatestCode(c) ==
    /\ pc[c] = "await_delay"
    /\ requests' = [requests EXCEPT ![c] = Append(@, "dc2")]
    /\ pc' = [pc EXCEPT ![c] = "await_token"]
    /\ UNCHANGED << session, currentInterval, result, deviceRequests,
                    deviceOutcome, openCalls, openOutcome, pollCalls, timers,
                    responses >>

\* The delay elapses: the token request is posted with the device code.
DelayElapsed(c) ==
    /\ pc[c] = "await_delay"
    /\ requests' = [requests EXCEPT ![c] = Append(@, session[c].device_code)]
    /\ pc' = [pc EXCEPT ![c] = "await_token"]
    /\ UNCHANGED << session, currentInterval, result, deviceRequests,
                    deviceOutcome, openCalls, openOutcome, pollCalls, timers,
                    responses >>

\* The milliseconds call c has spent in delays that have elapsed.
ElapsedMs(c) == Sum(SubSeq(timers[c], 1, Len(requests[c])))

\* Continue with the session's lifetime enforced: once expires_in seconds
\* have been waited, the loop throws instead of going round.
ContinueUntilExpired(c, data) ==
    IF ElapsedMs(c) >= session[c].expires_in * MsPerSecond
    THEN /\ result' = [result EXCEPT ![c] = AuthFailed(Thrown(TRUE, "expired", Undefined))]
         /\ pc' = [pc EXCEPT ![c] = "rejected"]
         /\ UNCHANGED << currentInterval, timers >>
    ELSE /\ currentInterval' = [currentInterval EXCEPT ![Frame(c)] =
                                   NextInterval(@, data)]
         /\ timers' = [timers EXCEPT ![c] =
                          Append(@, NextInterval(currentInterval[Frame(c)], data)
                                      * MsPerSecond)]
         /\ pc' = [pc EXCEPT ![c] = "await_delay"]
         /\ UNCHANGED result

\* The loop goes round: the interval is updated and the next delay started.
Continue(c, data) ==
    /\ currentInterval' = [currentInterval EXCEPT ![Frame(c)] =
                              NextInterval(@, data)]
    /\ timers' = [timers EXCEPT ![c] =
                     Append(@, NextInterval(currentInterval[Frame(c)], data)
                                 * MsPerSecond)]
    /\ pc' = [pc EXCEPT ![c] = "await_delay"]
    /\ UNCHANGED result

\* pollForToken returns: getGitHubToken prints and returns the token.
Return(c, data) ==
    /\ result' = [result EXCEPT ![c] = ReturnValue(data)]
    /\ pc' = [pc EXCEPT ![c] = "resolved"]
    /\ UNCHANGED << currentInterval, timers >>

\* err reaches the catch of pollForToken, whose rethrow reaches the catch of
\* getGitHubToken.
Throw(c, err) ==
    /\ result' = [result EXCEPT ![c] = AuthFailed(PollCatch(err))]
    /\ pc' = [pc EXCEPT ![c] = "rejected"]
    /\ UNCHANGED << currentInterval, timers >>

\* The token post settles and the rest of the iteration runs: the answer is
\* classified, and the loop goes round, returns or throws.  The loop itself
\* has no cap; the guard bounds how long the provider keeps it going.
TokenSettled(c) ==
    /\ pc[c] = "await_token"
    /\ \E r \in TokenOutcomes :
          /\ Retryable(r) => Len(responses[c]) < MaxPolls
          /\ responses' = [responses EXCEPT ![c] = Append(@, r)]
          /\ IF r.kind = "throw" THEN Throw(c, r)
             ELSE IF Classify(r) \in {"continue", "slow_down"} THEN Continue(c, r)
             ELSE IF Classify(r) = "throw" THEN Throw(c, ProviderError(r))
             ELSE Return(c, r)
    /\ UNCHANGED << session, deviceRequests, deviceOutcome, openCalls,
                    openOutcome, pollCalls, requests >>

Step(c) ==
    \/ getGitHubToken(c)
    \/ DeviceCodeResolved(c)
    \/ DeviceCodeRejected(c)
    \/ OpenSettled(c)
    \/ DelayElapsed(c)
    \/ TokenSettled(c)

\* getGitHubToken on its own: calls that may interleave, main left aside.
Next == (\E c \in Calls : Step(c)) /\ UNCHANGED mainVars

Spec == Init /\ [][Next]_vars

\* Every timer fires and every request settles.
FairSpec ==
    /\ Spec
    /\ \A c \in Calls :
          /\ WF_vars(DelayElapsed(c) /\ UNCHANGED mainVars)
          /\ WF_vars(TokenSettled(c) /\ UNCHANGED mainVars)

(* ---------------------------------------------- main (index.js), actions *)

\* execCommand's rejection: new Error(`Error executing command "${command}"...`)
ExecError(cmd) == "Error executing command \"" \o cmd \o "\""

\* A command or an API call is started and main suspends on it at `next`.
Run(cmd, next) ==
    /\ log' = Append(log, cmd)
    /\ mpc' = next
    /\ UNCHANGED mainError

\* An await of main throws: main() rejects and main().catch prints it.
Reject(msg) ==
    /\ mpc' = "failed"
    /\ mainError' = msg
    /\ UNCHANGED log

\* Customize without the ignore of node_modules and of other file types.
CustomizeEveryFile(owner, url) ==
    files' = [f \in DOMAIN files |-> ReplaceAll(files[f], From, To(answers, owner, url))]

\* replaceInFileSync({files, ignore, from, to})
Customize(owner, url) ==
    files' = [f \in DOMAIN files |->
                 IF MatchesGlob(f)
                 THEN ReplaceAll(files[f], From, To(answers, owner, url))
                 ELSE files[f]]

\* 'Customizing the template', replaceInFileSync, then hasGitUser() up to its
\* first await.
CustomizeAndAskGit(owner, url) ==
    /\ Customize(owner, url)
    /\ Run("git config --get user.name", "await_git_user")

\* main from its start to the createRepo prompt: requirements, the first
\* prompt, the template, the dependencies, git init.
Setup ==
    /\ mpc = "start"
    /\ \E ok \in BOOLEAN : \E a \in Answers :
          IF ok
          THEN /\ answers' = a
               /\ files' = [f \in ProjectFiles |-> TemplateContent]
               /\ log' = log \o << "git init", "git branch -M main" >>
               /\ mpc' = "ask_create_repo"
               /\ UNCHANGED mainError
          ELSE /\ Reject(ExecError("git init"))
               /\ UNCHANGED << answers, files >>
    /\ UNCHANGED << createRepo, createInOrg, orgs, org, githubUser,
                    repositoryOwner, repositoryUrl, gitOK >>
    /\ UNCHANGED authVars

\* The createRepo prompt is answered.  Yes: getGitHubToken() is called.
\* No: the template is customized with the initial owner and url.
AskCreateRepo ==
    /\ mpc = "ask_create_repo"
    /\ \E yes \in BOOLEAN :
          /\ createRepo' = yes
          /\ IF yes
             THEN /\ getGitHubToken(MainCall)
                  /\ mpc' = "await_token"
                  /\ UNCHANGED << files, log, mainError >>
             ELSE /\ CustomizeAndAskGit(repositoryOwner, repositoryUrl)
                  /\ UNCHANGED authVars
    /\ UNCHANGED << answers, createInOrg, orgs, org, githubUser,
                    repositoryOwner, repositoryUrl, gitOK >>

\* `await getGitHubToken()` settles.  Resolved: new Octokit({auth}), and
\* users.getAuthenticated() is called.
TokenAwaited ==
    /\ mpc = "await_token"
    /\ pc[MainCall] \in {"resolved", "rejected"}
    /\ IF pc[MainCall] = "resolved"
       THEN Run("users.getAuthenticated", "await_user")
       ELSE Reject(result[MainCall])
    /\ UNCHANGED << answers, createRepo, createInOrg, orgs, org, githubUser,
                    repositoryOwner, repositoryUrl, gitOK, files >>
    /\ UNCHANGED authVars

\* users.getAuthenticated() settles; then the createInOrg prompt.
UserSettled ==
    /\ mpc = "await_user"
    /\ \/ \E login \in Logins :
             /\ githubUser' = login
             /\ repositoryOwner' = login
             /\ mpc' = "ask_create_in_org"
             /\ UNCHANGED << log, mainError >>
       \/ /\ Reject("Invalid GitHub token")
          /\ UNCHANGED << githubUser, repositoryOwner >>
    /\ UNCHANGED << answers, createRepo, createInOrg, orgs, org,
                    repositoryUrl, gitOK, files >>
    /\ UNCHANGED authVars

\* 'Creating the repository in your personal account'
CreateForUser == Run("repos.createForAuthenticatedUser", "await_create_for_user")

\* The createInOrg prompt is answered.
AskCreateInOrg ==
    /\ mpc = "ask_create_in_org"
    /\ \E yes \in BOOLEAN :
          /\ createInOrg' = yes
          /\ IF yes
             THEN Run("orgs.listForAuthenticatedUser", "await_orgs")
             ELSE CreateForUser
    /\ UNCHANGED << answers, createRepo, orgs, org, githubUser,
                    repositoryOwner, repositoryUrl, gitOK, files >>
    /\ UNCHANGED authVars

\* OrgsSettled with the fallback lost: with no organization nothing is
\* created and main goes on to the remote.
OrgsSettledNoFallback ==
    /\ mpc = "await_orgs"
    /\ \E list \in OrgLists :
          /\ orgs' = list
          /\ createInOrg' = createInOrg
          /\ IF Len(list) > 0
             THEN /\ mpc' = "ask_which_org"
                  /\ UNCHANGED << log, mainError >>
             ELSE Run("git remote add origin " \o repositoryUrl, "await_remote")
    /\ UNCHANGED << answers, createRepo, org, githubUser, repositoryOwner,
                    repositoryUrl, gitOK, files >>
    /\ UNCHANGED authVars

\* orgs.listForAuthenticatedUser() settles.  With organizations: the org
\* prompt.  With none: createInOrg = false, and the personal account is used.
OrgsSettled ==
    /\ mpc = "await_orgs"
    /\ \/ \E list \in OrgLists :
             /\ orgs' = list
             /\ IF Len(list) > 0
                THEN /\ mpc' = "ask_which_org"
                     /\ UNCHANGED << createInOrg, log, mainError >>
                ELSE /\ createInOrg' = FALSE
                     /\ CreateForUser
       \/ /\ Reject("orgs.listForAuthenticatedUser failed")
          /\ UNCHANGED << orgs, createInOrg >>
    /\ UNCHANGED << answers, createRepo, org, githubUser, repositoryOwner,
                    repositoryUrl, gitOK, files >>
    /\ UNCHANGED authVars

\* The org prompt is answered: repos.createInOrg({org, name, description}).
AskWhichOrg ==
    /\ mpc = "ask_which_org"
    /\ \E i \in 1..Len(orgs) :
          /\ org' = orgs[i]
          /\ Run("repos.createInOrg", "await_create_in_org")
    /\ UNCHANGED << answers, createRepo, createInOrg, orgs, githubUser,
                    repositoryOwner, repositoryUrl, gitOK, files >>
    /\ UNCHANGED authVars

\* repositoryUrl = repo.html_url, then `git remote add origin`.
RepoCreated(owner) ==
    /\ repositoryUrl' = HtmlUrl(owner, answers.appName)
    /\ Run("git remote add origin " \o HtmlUrl(owner, answers.appName),
           "await_remote")

\* repos.createInOrg() settles: repositoryOwner = org; `if (!createInOrg)`
\* is skipped.
CreateInOrgSettled ==
    /\ mpc = "await_create_in_org"
    /\ \/ /\ repositoryOwner' = org
          /\ RepoCreated(org)
       \/ /\ Reject("repos.createInOrg failed")
          /\ UNCHANGED << repositoryOwner, repositoryUrl >>
    /\ UNCHANGED << answers, createRepo, createInOrg, orgs, org, githubUser,
                    gitOK, files >>
    /\ UNCHANGED authVars

\* repos.createForAuthenticatedUser() settles.
CreateForUserSettled ==
    /\ mpc = "await_create_for_user"
    /\ \/ RepoCreated(githubUser)
       \/ /\ Reject("repos.createForAuthenticatedUser failed")
          /\ UNCHANGED repositoryUrl
    /\ UNCHANGED << answers, createRepo, createInOrg, orgs, org, githubUser,
                    repositoryOwner, gitOK, files >>
    /\ UNCHANGED authVars

\* `git remote add origin` settles; then the template is customized.
RemoteSettled ==
    /\ mpc = "await_remote"
    /\ \/ CustomizeAndAskGit(repositoryOwner, repositoryUrl)
       \/ /\ Reject(ExecError("git remote add origin " \o repositoryUrl))
          /\ UNCHANGED files
    /\ UNCHANGED << answers, createRepo, createInOrg, orgs, org, githubUser,
                    repositoryOwner, repositoryUrl, gitOK >>
    /\ UNCHANGED authVars

\* hasVsCode() up to its await.
AskVsCodeInstalled == Run("code --version", "await_has_vscode")

\* hasGitUser(): `git config --get user.name` settles (a failure is caught
\* and counts as false); `git config --get user.email` is run.
GitUserNameSettled ==
    /\ mpc = "await_git_user"
    /\ \E hasUserName \in BOOLEAN : gitOK' = hasUserName
    /\ Run("git config --get user.email", "await_git_email")
    /\ UNCHANGED << answers, createRepo, createInOrg, orgs, org, githubUser,
                    repositoryOwner, repositoryUrl, files >>
    /\ UNCHANGED authVars

\* hasGitUser() returns hasUserName && hasUserEmail.  gitOK: `git add .`;
\* otherwise the warning, and hasVsCode().
GitUserEmailSettled ==
    /\ mpc = "await_git_email"
    /\ \E hasUserEmail \in BOOLEAN :
          /\ gitOK' = (gitOK /\ hasUserEmail)
          /\ IF gitOK /\ hasUserEmail
             THEN Run("git add .", "await_add")
             ELSE AskVsCodeInstalled
    /\ UNCHANGED << answers, createRepo, createInOrg, orgs, org, githubUser,
                    repositoryOwner, repositoryUrl, files >>
    /\ UNCHANGED authVars

\* The command main is suspended on at `at` settles: resolved, `cmd` is run
\* and main suspends at `next`; rejected, main rejects.
Then(at, cmd, next) ==
    /\ mpc = at
    /\ \/ Run(cmd, next)
       \/ Reject(ExecError(log[Len(log)]))
    /\ UNCHANGED << answers, createRepo, createInOrg, orgs, org, githubUser,
                    repositoryOwner, repositoryUrl, gitOK, files >>
    /\ UNCHANGED authVars

AddSettled ==
    Then("await_add",
         "git commit -m \"feat: initial template by " \o REPOSITORY_URL \o "\"",
         "await_commit")

\* CommitSettled pushing right after the first commit.
CommitSettledPushFirst ==
    IF createRepo
    THEN Then("await_commit", "git push -u -f origin main", "await_push")
    ELSE Then("await_commit", "code --version", "await_has_vscode")

\* The first commit settles.  `if (createRepo)`: the contributor is added.
CommitSettled ==
    IF createRepo
    THEN Then("await_commit",
              "npx all-contributors add " \o githubUser \o " code,doc",
              "await_contributors")
    ELSE Then("await_commit", "code --version", "await_has_vscode")

ContributorsSettled ==
    Then("await_contributors", "npx prettier --write docs/README.md",
         "await_prettier_readme")

PrettierReadmeSettled ==
    Then("await_prettier_readme",
         "npx prettier --write .all-contributorsrc --parser json-stringify",
         "await_prettier_rc")

PrettierRcSettled == Then("await_prettier_rc", "git add .", "await_add_again")

AddAgainSettled ==
    Then("await_add_again", "git commit --amend --no-edit", "await_amend")

AmendSettled ==
    Then("await_amend", "git push -u -f origin main", "await_push")

PushSettled == Then("await_push", "code --version", "await_has_vscode")

\* 'Setup completed!', `if (createRepo)` the GitHub line, the next steps.
Finish ==
    /\ log' = log \o << "Setup completed!" >>
                  \o (IF createRepo
                      THEN << "The project is also available on GitHub at "
                                \o repositoryUrl >>
                      ELSE << >>)
                  \o << "Next steps" >>
    /\ mpc' = "done"
    /\ UNCHANGED mainError

\* hasVsCode() settles (a failure is caught and counts as false).
HasVsCodeSettled ==
    /\ mpc = "await_has_vscode"
    /\ \E has \in BOOLEAN :
          IF has
          THEN mpc' = "ask_vscode" /\ UNCHANGED << log, mainError >>
          ELSE Finish
    /\ UNCHANGED << answers, createRepo, createInOrg, orgs, org, githubUser,
                    repositoryOwner, repositoryUrl, gitOK, files >>
    /\ UNCHANGED authVars

\* The openInVsCode prompt is answered.
AskOpenInVsCode ==
    /\ mpc = "ask_vscode"
    /\ \E openInVsCode \in BOOLEAN :
          IF openInVsCode
          THEN Run("code " \o answers.appName, "await_code")
          ELSE Finish
    /\ UNCHANGED << answers, createRepo, createInOrg, orgs, org, githubUser,
                    repositoryOwner, repositoryUrl, gitOK, files >>
    /\ UNCHANGED authVars

\* `code ${projectPath}` settles.
CodeSettled ==
    /\ mpc = "await_code"
    /\ \/ Finish
       \/ Reject(ExecError(log[Len(log)]))
    /\ UNCHANGED << answers, createRepo, createInOrg, orgs, org, githubUser,
                    repositoryOwner, repositoryUrl, gitOK, files >>
    /\ UNCHANGED authVars

\* The steps of getGitHubToken once main has called it.
AuthStep ==
    /\ \/ DeviceCodeResolved(MainCall)
       \/ DeviceCodeRejected(MainCall)
       \/ OpenSettled(MainCall)
       \/ DelayElapsed(MainCall)
       \/ TokenSettled(MainCall)
    /\ UNCHANGED mainVars

MainNext ==
    \/ Setup
    \/ AskCreateRepo
    \/ AuthStep
    \/ TokenAwaited
    \/ UserSettled
    \/ AskCreateInOrg
    \/ OrgsSettled
    \/ AskWhichOrg
    \/ CreateInOrgSettled
    \/ CreateForUserSettled
    \/ RemoteSettled
    \/ GitUserNameSettled
    \/ GitUserEmailSettled
    \/ AddSettled
    \/ CommitSettled
    \/ ContributorsSettled
    \/ PrettierReadmeSettled
    \/ PrettierRcSettled
    \/ AddAgainSettled
    \/ AmendSettled
    \/ PushSettled
    \/ HasVsCodeSettled
    \/ AskOpenInVsCode
    \/ CodeSettled

\* One run of main.
MainSpec == Init /\ [][MainNext]_vars

(* ------------------------------------------------- vocabulary of claims *)

Settled(c) == pc[c] \in {"resolved", "rejected"}

Pending(r) == r.kind = "data" /\ r.error = "authorization_pending"

SlowDown(r) == r.kind = "data" /\ r.error = "slow_down"

\* The wait call c started last has elapsed.
DelayFired(c) == Len(requests[c]) = Len(timers[c])

CarriesToken(r) == r.kind = "data" /\ r.access_token # Undefined

CarriesError(r) == r.kind = "data" /\ r.error # Undefined

\* An answer that is a named error other than the two transient ones, or a
\* failed request.
Fatal(r) ==
    \/ r.kind = "throw"
    \/ CarriesError(r) /\ ~Pending(r) /\ ~SlowDown(r)

\* The number of slow_down answers among the first n answers to call c.
SlowDownsIn(c, n) ==
    Cardinality({ i \in 1..n : SlowDown(responses[c][i]) })

\* Iteration i of call c was the last one: nothing was waited for or
\* requested after its answer.
LastIteration(c, i) ==
    /\ Len(responses[c]) = i
    /\ Len(requests[c]) = i
    /\ Len(timers[c]) = i

(* ---------------------------------------------------------------- claims *)

\* C1, as stated: the first answer that contains access_token ends the
\* loop, and the call resolves with that access_token.
C1_AsStated ==
    \A c \in Calls : \A i \in 1..Len(responses[c]) :
        ( /\ CarriesToken(responses[c][i])
          /\ \A j \in 1..(i - 1) : ~CarriesToken(responses[c][j]) )
        => /\ pc[c] = "resolved"
           /\ result[c] = responses[c][i].access_token
           /\ LastIteration(c, i)

\* C1, amended: an answer that contains access_token and no error ends the
\* loop at once, whatever retryable answers came before it: the call resolves
\* with that access_token and nothing is waited for or requested afterwards.
C1_ReturnsOnFirstSuccess ==
    \A c \in Calls : \A i \in 1..Len(responses[c]) :
        (CarriesToken(responses[c][i]) /\ ~CarriesError(responses[c][i]))
        => /\ pc[c] = "resolved"
           /\ result[c] = responses[c][i].access_token
           /\ LastIteration(c, i)

C1_Witness ==
    \E c \in Calls :
        /\ Len(responses[c]) = 3
        /\ Pending(responses[c][1]) /\ Pending(responses[c][2])
        /\ responses[c][3] = Data(Undefined, Undefined, "tok_xyz")
        /\ pc[c] = "resolved" /\ result[c] = "tok_xyz"

\* C2: within one pollForToken run the waits never get shorter, and every
\* wait, like the interval itself, is the initial interval plus 5 seconds for
\* each slow_down answer received before it.
C2_IntervalGrowsByFive ==
    \A c \in Calls : pollCalls[c] > 0 =>
        /\ currentInterval[c] =
              session[c].interval + 5 * SlowDownsIn(c, Len(responses[c]))
        /\ \A i \in 1..Len(timers[c]) :
              timers[c][i] =
                 (session[c].interval + 5 * SlowDownsIn(c, i - 1)) * 1000
        /\ \A i \in 1..(Len(timers[c]) - 1) : timers[c][i] <= timers[c][i + 1]

C2_Witness ==
    \E c \in Calls :
        /\ Len(responses[c]) >= 2
        /\ SlowDown(responses[c][1]) /\ SlowDown(responses[c][2])
        /\ session[c].interval = 1
        /\ currentInterval[c] = 11
        /\ timers[c] = << 1000, 6000, 11000 >>

\* C3: a fatal answer (a named error other than authorization_pending and
\* slow_down, or a failed request) ends the loop on the spot: it is the last
\* answer, no wait and no request follow it, and the call is rejected.
C3_FatalEndsLoop ==
    \A c \in Calls : \A i \in 1..Len(responses[c]) :
        Fatal(responses[c][i]) => pc[c] = "rejected" /\ LastIteration(c, i)

C3_Witness ==
    \E c \in Calls :
        /\ Len(responses[c]) = 2
        /\ Pending(responses[c][1])
        /\ responses[c][2] = Data("access_denied", Undefined, Undefined)
        /\ pc[c] = "rejected" /\ LastIteration(c, 2)

\* C4, as stated: after a fatal named error that carries a description D the
\* call is rejected with an error whose message is D.
C4_AsStated ==
    \A c \in Calls : \A i \in 1..Len(responses[c]) :
        ( /\ responses[c][i].kind = "data"
          /\ Fatal(responses[c][i])
          /\ responses[c][i].error_description # Undefined )
        => pc[c] = "rejected" /\ result[c] = responses[c][i].error_description

\* C4, amended: after a fatal named error that carries a description D the
\* call is rejected with an error whose message is
\* "GitHub authentication failed: " followed by D.
C4_MessageIsWrappedDescription ==
    \A c \in Calls : \A i \in 1..Len(responses[c]) :
        ( /\ responses[c][i].kind = "data"
          /\ Fatal(responses[c][i])
          /\ responses[c][i].error_description # Undefined )
        => /\ pc[c] = "rejected"
           /\ result[c] = "GitHub authentication failed: "
                             \o responses[c][i].error_description

C4_Witness ==
    \E c \in Calls :
        /\ Len(responses[c]) = 1
        /\ responses[c][1] =
              Data("expired_token", "device code expired", Undefined)
        /\ pc[c] = "rejected"
        /\ result[c] = "GitHub authentication failed: device code expired"

\* C5: when the device-code request fails the call is rejected with an
\* authentication-failed error, and in that call pollForToken is never
\* invoked, no wait is started, no token request is sent and the browser is
\* never opened.
C5_DeviceFailureStopsEverything ==
    \A c \in Calls : deviceOutcome[c] = "failed" =>
        /\ pc[c] = "rejected"
        /\ result[c] \in
              { "GitHub authentication failed: " \o m :
                  m \in { "Request failed with status code 401",
                          "Network Error",
                          "An unknown error occurred." } }
        /\ pollCalls[c] = 0
        /\ timers[c] = << >>
        /\ requests[c] = << >>
        /\ openCalls[c] = 0

C5_Witness ==
    \E c \in Calls :
        /\ deviceOutcome[c] = "failed"
        /\ deviceRequests[c] = 1
        /\ pc[c] = "rejected"
        /\ result[c] = "GitHub authentication failed: Network Error"

\* C6, as stated: a failure to open the browser is not fatal; the call goes
\* on to pollForToken.
C6_AsStated ==
    \A c \in Calls : openOutcome[c] = "failed" =>
        pc[c] # "rejected" /\ pollCalls[c] = 1

\* C7: two calls, sequential or interleaved, are independent sessions: every
\* token request of a call carries the device_code that call obtained, and a
\* step of one call (a slow_down it receives included) changes nothing of the
\* other call: not its interval, its session, its waits, its requests, its
\* answers or its outcome.
C7_CallsAreIndependent ==
    /\ [](\A c \in Calls : \A i \in 1..Len(requests[c]) :
             requests[c][i] = session[c].device_code)
    /\ [][\A c \in Calls : pc'[c] # pc[c] =>
             \A d \in Calls \ {c} :
                /\ currentInterval'[d] = currentInterval[d]
                /\ session'[d] = session[d]
                /\ timers'[d] = timers[d]
                /\ requests'[d] = requests[d]
                /\ responses'[d] = responses[d]
                /\ result'[d] = result[d]
                /\ pc'[d] = pc[d]]_vars

C7_Witness ==
    \E c \in Calls : \E d \in Calls \ {c} :
        /\ session[c].device_code = "dc1" /\ session[d].device_code = "dc2"
        /\ pc[c] = "await_delay" /\ pc[d] = "await_delay"
        /\ Len(responses[c]) = 1 /\ SlowDown(responses[c][1])
        /\ Len(responses[d]) = 1 /\ Pending(responses[d][1])
        /\ requests[c] = << "dc1" >> /\ requests[d] = << "dc2" >>
        /\ currentInterval[c] = 10 /\ currentInterval[d] = 1

\* C8: an authorization_pending answer leaves the interval as it was: the
\* wait that follows it is as long as the wait that preceded it.
C8_PendingKeepsInterval ==
    \A c \in Calls : \A i \in 1..Len(responses[c]) :
        Pending(responses[c][i]) =>
            /\ Len(timers[c]) > i
            /\ timers[c][i + 1] = timers[c][i]

C8_Witness ==
    \E c \in Calls :
        /\ Len(responses[c]) = 2
        /\ Pending(responses[c][1]) /\ Pending(responses[c][2])
        /\ timers[c] = << 5000, 5000, 5000 >>

\* C9, as stated: a call that terminates either resolves with the
\* access_token an answer carried, never with an absent one, or is rejected
\* with one wrapped authentication-failed error.
C9_AsStated ==
    \A c \in Calls :
        /\ pc[c] = "resolved" =>
              /\ result[c] # Undefined
              /\ \E i \in 1..Len(responses[c]) :
                    result[c] = responses[c][i].access_token
        /\ pc[c] = "rejected" =>
              \E m \in { "device code expired", "access_denied",
                         "bad verification code", "Network Error",
                         "Request failed with status code 401",
                         "An unknown error occurred during authentication.",
                         "An unknown error occurred.",
                         "spawn xdg-open ENOENT" } :
                 result[c] = "GitHub authentication failed: " \o m

\* C10: polling ends only at an answer other than authorization_pending and
\* slow_down, however many of those came first, and, every wait elapsing and
\* every request settling, a call that is polling does end there.
C10_PollsUntilTerminalAnswer ==
    /\ [](\A c \in Calls : (Settled(c) /\ pollCalls[c] > 0) =>
             /\ Len(responses[c]) > 0
             /\ ~Retryable(responses[c][Len(responses[c])])
             /\ \A i \in 1..(Len(responses[c]) - 1) :
                   Retryable(responses[c][i]))
    /\ \A c \in Calls :
          (pc[c] \in {"await_delay", "await_token"})
             ~> ( /\ Settled(c)
                  /\ Len(responses[c]) > 0
                  /\ ~Retryable(responses[c][Len(responses[c])]) )

C10_Witness ==
    \E c \in Calls :
        /\ Settled(c)
        /\ Len(responses[c]) = 3
        /\ SlowDown(responses[c][1]) /\ Pending(responses[c][2])
        /\ ~Retryable(responses[c][3])

\* C12: expires_in is never enforced.  As long as every answer is
\* authorization_pending or slow_down the call is still waiting or polling,
\* however much time it has spent waiting and whatever expires_in is; and
\* every such answer starts a new wait.
C12_ExpiryNeverEnds ==
    /\ [](\A c \in Calls :
             (pollCalls[c] > 0
                /\ \A i \in 1..Len(responses[c]) : Retryable(responses[c][i]))
             => /\ pc[c] \in {"await_delay", "await_token"}
                /\ Len(timers[c]) = Len(responses[c]) + 1)
    /\ [][\A c \in Calls :
             ( /\ Len(responses'[c]) = Len(responses[c]) + 1
               /\ Retryable(responses'[c][Len(responses'[c])]) )
             => /\ pc'[c] = "await_delay"
                /\ Len(timers'[c]) = Len(timers[c]) + 1
                /\ session'[c] = session[c]]_vars

C12_Witness ==
    \E c \in Calls :
        /\ session[c].expires_in = 2
        /\ Len(responses[c]) = 2
        /\ Pending(responses[c][1]) /\ SlowDown(responses[c][2])
        /\ ElapsedMs(c) = 2000
        /\ pc[c] = "await_delay"
        /\ timers[c] = << 1000, 1000, 6000 >>

\* C13: a call requests the device-code endpoint exactly once, every token
\* request it sends carries the device_code of that one answer, and the
\* session, once obtained, is never replaced.
C13_OneDeviceCodePerCall ==
    /\ [](\A c \in Calls :
             /\ deviceRequests[c] = (IF pc[c] = "idle" THEN 0 ELSE 1)
             /\ Len(requests[c]) > 0 =>
                   /\ deviceOutcome[c] = "ok"
                   /\ session[c].device_code \in {"dc1", "dc2"}
             /\ \A i \in 1..Len(requests[c]) :
                   requests[c][i] = session[c].device_code)
    /\ [][\A c \in Calls :
             deviceOutcome[c] # "none" =>
                /\ session'[c] = session[c]
                /\ deviceRequests'[c] = deviceRequests[c]]_vars

C13_Witness ==
    \E c \in Calls :
        /\ deviceRequests[c] = 1
        /\ session[c].device_code = "dc1"
        /\ Len(responses[c]) = 2
        /\ SlowDown(responses[c][1]) /\ Pending(responses[c][2])
        /\ DelayFired(c)
        /\ requests[c] = << "dc1", "dc1", "dc1" >>

\* C14: waits and token requests alternate, the wait first: a request is
\* sent only when a wait has just elapsed, a wait is started only when no
\* wait is pending, the first wait is one of the initial interval, and the
\* requests sent are as many as the waits that have elapsed.
C14_WaitThenRequest ==
    /\ [](\A c \in Calls :
             /\ Len(requests[c]) =
                   (IF pc[c] = "await_delay" THEN Len(timers[c]) - 1
                                             ELSE Len(timers[c]))
             /\ Len(timers[c]) > 0 =>
                   timers[c][1] = session[c].interval * 1000)
    /\ [][\A c \in Calls :
             /\ requests'[c] # requests[c] =>
                   /\ pc[c] = "await_delay"
                   /\ timers'[c] = timers[c]
                   /\ Len(requests'[c]) = Len(timers[c])
             /\ timers'[c] # timers[c] =>
                   /\ pc[c] # "await_delay" /\ pc'[c] = "await_delay"
                   /\ requests'[c] = requests[c]
                   /\ Len(timers'[c]) = Len(requests[c]) + 1]_vars

C14_Witness ==
    \E c \in Calls :
        /\ pc[c] = "resolved"
        /\ Len(timers[c]) = 2 /\ Len(requests[c]) = 2
        /\ SlowDown(responses[c][1])
        /\ timers[c] = << 5000, 10000 >>
        /\ result[c] = "tok_xyz"

\* C15, as stated: a failed token request is fatal; the error carries the
\* response's error_description when there is one and the generic message
\* when there is none.
C15_AsStated ==
    \A c \in Calls : \A i \in 1..Len(responses[c]) :
        responses[c][i].kind = "throw" =>
            /\ pc[c] = "rejected" /\ LastIteration(c, i)
            /\ result[c] =
                  "GitHub authentication failed: " \o
                     (IF responses[c][i].error_description # Undefined
                      THEN responses[c][i].error_description
                      ELSE "An unknown error occurred during authentication.")

\* C15, amended: a failed token request is fatal; the error carries the
\* response's error_description when there is one; when there is none it
\* carries the message of the thrown Error, and the generic message only
\* when what was thrown is no Error.
C15_TransportFailureMessage ==
    \A c \in Calls : \A i \in 1..Len(responses[c]) :
        responses[c][i].kind = "throw" =>
            /\ pc[c] = "rejected" /\ LastIteration(c, i)
            /\ result[c] =
                  "GitHub authentication failed: " \o
                     (IF responses[c][i].error_description # Undefined
                      THEN responses[c][i].error_description
                      ELSE IF responses[c][i].isError
                      THEN responses[c][i].message
                      ELSE "An unknown error occurred during authentication.")

C15_Witness ==
    \E c \in Calls : \E d \in Calls \ {c} :
        /\ Len(responses[c]) = 1 /\ Len(responses[d]) = 1
        /\ responses[c][1].kind = "throw" /\ responses[d][1].kind = "throw"
        /\ result[c] = "GitHub authentication failed: bad verification code"
        /\ result[d] = "GitHub authentication failed: "
                          \o "An unknown error occurred during authentication."

(* ------------------------------------------------------ claims about main *)

\* The template has been customized: hasGitUser() has been called.
Customized == \E i \in 1..Len(log) : log[i] = "git config --get user.name"

\* Entry e is in the log.
Logged(e) == \E i \in 1..Len(log) : log[i] = e

\* How many times entry e is in the log.
TimesLogged(e) == Cardinality({ i \in 1..Len(log) : log[i] = e })

\* The files the globs select among the project's.
CustomizedFiles ==
    { File(<< >>, "manifest", "json"),
      File(<< "docs" >>, "README", "md"),
      File(<< "node" >>, "index", "ts"),
      File(<< "react" >>, "App", "tsx"),
      File(<< >>, ".all-contributorsrc", "") }

\* What the files hold before the customization.
Untouched ==
    << "<APP_VENDOR>", "<APP_NAME>", "<APP_TITLE>", "<APP_DESCRIPTION>",
       "<APP_REPOSITORY_OWNER>", "<APP_REPOSITORY_URL>", "<APP_OTHER>",
       "text" >>

C16_ExactlyOneCreation ==
    (Customized /\ createRepo) =>
        LET inOrg == TimesLogged("repos.createInOrg")
            forUser == TimesLogged("repos.createForAuthenticatedUser")
            askedOrg == Logged("orgs.listForAuthenticatedUser")
            owner == files[File(<< >>, "manifest", "json")][5]
        IN  /\ inOrg + forUser = 1
            /\ inOrg = 1 <=> (askedOrg /\ Len(orgs) > 0)
            /\ inOrg = 1 => owner = org /\ org \in {"org1", "org2"}
            /\ forUser = 1 => owner = githubUser /\ githubUser = "octocat"

C16_Witness ==
    /\ Customized /\ createRepo
    /\ Logged("orgs.listForAuthenticatedUser") /\ orgs = << >>
    /\ TimesLogged("repos.createForAuthenticatedUser") = 1
    /\ TimesLogged("repos.createInOrg") = 0
    /\ files[File(<< >>, "manifest", "json")][5] = "octocat"

\* The `git remote add origin <url>` commands.
RemoteAdds ==
    { "git remote add origin https://github.com/" \o o \o "/my-app" :
         o \in {"octocat", "org1", "org2"} } \cup
    { "git remote add origin <APP_REPOSITORY_URL>" }

FirstCommit ==
    "git commit -m \"feat: initial template by "
       \o "https://github.com/cubos-vtex/create-vtex-io-app\""

\* C17: git push is run only when a repository was created and a git user
\* name and email are configured, and only after the first commit and its
\* amend.  When the repository is declined getGitHubToken is never invoked
\* and no remote is added.  When the repository was created and no git user
\* is configured nothing is added, committed or pushed, and the finished run
\* still says that the project is available on GitHub.
C17_PushOnlyAfterCommit ==
    /\ \A i \in 1..Len(log) : log[i] = "git push -u -f origin main" =>
          /\ createRepo /\ gitOK
          /\ \E r \in 1..(i - 1) : log[r] \in RemoteAdds
          /\ TimesLogged("repos.createInOrg")
                + TimesLogged("repos.createForAuthenticatedUser") = 1
          /\ \E j \in 1..(i - 1) : \E k \in (j + 1)..(i - 1) :
                log[j] = FirstCommit /\ log[k] = "git commit --amend --no-edit"
    /\ ~createRepo =>
          /\ pc[MainCall] = "idle" /\ deviceRequests[MainCall] = 0
          /\ \A i \in 1..Len(log) : log[i] \notin RemoteAdds
    /\ (mpc = "done" /\ ~gitOK) =>
          /\ ~Logged("git add .") /\ ~Logged(FirstCommit)
          /\ ~Logged("git commit --amend --no-edit")
          /\ ~Logged("git push -u -f origin main")
    /\ (mpc = "done" /\ createRepo) =>
          Logged("The project is also available on GitHub at " \o repositoryUrl)

C17_Witness ==
    /\ mpc = "done" /\ createRepo /\ ~gitOK
    /\ Logged("git remote add origin https://github.com/octocat/my-app")
    /\ ~Logged(FirstCommit) /\ ~Logged("git push -u -f origin main")
    /\ Logged("The project is also available on GitHub at "
                 \o "https://github.com/octocat/my-app")

====
